---- MODULE Spec2Model ----
(***************************************************************************)
(* Model of src/translator.py, the SEC 10-K downloader: the Streamlit      *)
(* button handler, process_filings (row loop, fetch_sec_json retry loop,   *)
(* filing filter loop, render loop) and the pure helpers zero_pad_cik,     *)
(* sanitize_filename, datetime.strptime("%Y-%m-%d") and os.path.join.      *)
(* Text values are sequences of one-character strings.                     *)
(***************************************************************************)
EXTENDS Integers, Sequences, FiniteSets, TLC

VARIABLES
    pc,                 \* control point of the script
    excel_file,         \* "None" or "xlsx": st.file_uploader result
    start_year,         \* sidebar number_input
    end_year,           \* sidebar number_input
    output_dir_made,    \* tempfile.mkdtemp was called
    process_called,     \* process_filings was entered
    zipped,             \* zip_directory was called
    row,                \* position of df.iterrows() (1-based)
    cik_raw,            \* row.get('CIK')
    cik_padded,         \* zero_pad_cik(cik_raw)
    company_name,       \* row.get('Company Name')
    attempt,            \* loop variable of fetch_sec_json = requests made
    resp,               \* last response of requests.get
    sec_data,           \* value returned by fetch_sec_json
    form_len,           \* len(form_list)
    i,                  \* loop variable of the filing loop (1-based)
    entry,              \* the cells of entry i the loop body read
    filings_to_process, \* list of task dicts
    driver,             \* "none", "live", "quit"
    drivers_created,    \* number of successful create_driver calls
    k,                  \* position of the render loop (1-based)
    render_log,         \* positions of the tasks download_and_convert_filing was called for
    outcome,            \* result of the last download_and_convert_filing
    save_path,          \* save_path of the last render
    files,              \* paths of the PDF files written
    last_op,            \* last operation of the render loop: "render" or "delay"
    error               \* exception that left process_filings, or "none"

vars == <<pc, excel_file, start_year, end_year, output_dir_made, process_called,
          zipped, row, cik_raw, cik_padded, company_name, attempt, resp,
          sec_data, form_len, i, entry, filings_to_process, driver,
          drivers_created, k, render_log, outcome, save_path, files, last_op,
          error>>

(***************************************************************************)
(* Bounds of the model.                                                    *)
(***************************************************************************)
MaxEntries == 2         \* longest form array of a fetched index
MaxSmallCik == 60       \* identifiers 0..MaxSmallCik are padded in SpecPad

(***************************************************************************)
(* Text helpers.                                                           *)
(***************************************************************************)
DigitChars == <<"0", "1", "2", "3", "4", "5", "6", "7", "8", "9">>

IsDigit(c) == \E d \in 1..10 : DigitChars[d] = c

DigitVal(c) == (CHOOSE d \in 1..10 : DigitChars[d] = c) - 1

RECURSIVE str_int(_)
\* str(n) for n >= 0
str_int(n) ==
    IF n < 10 THEN <<DigitChars[n + 1]>>
    ELSE Append(str_int(n \div 10), DigitChars[(n % 10) + 1])

RECURSIVE Zeros(_)
Zeros(n) == IF n <= 0 THEN <<>> ELSE <<"0">> \o Zeros(n - 1)

RECURSIVE DigitsValue(_)
\* value of a sequence of decimal digits
DigitsValue(s) ==
    IF s = <<>> THEN 0
    ELSE 10 * DigitsValue(SubSeq(s, 1, Len(s) - 1)) + DigitVal(s[Len(s)])

AllDigits(s) == s # <<>> /\ \A j \in 1..Len(s) : IsDigit(s[j])

\* int(s) of a text: an optional sign and decimal digits
int_of(s) ==
    IF s # <<>> /\ s[1] = "-" THEN 0 - DigitsValue(Tail(s)) ELSE DigitsValue(s)

\* f"{val:010d}": the sign counts in the width, longer numbers are not cut
format_010d(val) ==
    IF val < 0
    THEN <<"-">> \o Zeros(9 - Len(str_int(0 - val))) \o str_int(0 - val)
    ELSE Zeros(10 - Len(str_int(val))) \o str_int(val)

zero_pad_cik_width9(cik) ==
    IF cik < 0 THEN format_010d(cik)
    ELSE Zeros(9 - Len(str_int(cik))) \o str_int(cik)

\* zero_pad_cik for an integer identifier (int(cik) does not raise)
zero_pad_cik(cik) == format_010d(cik)

UnsafeChars == {"\\", "/", "*", "?", ":", "\"", "<", ">", "|"}

KeepChar(c) == c \notin UnsafeChars

\* re.sub(r'[\\/*?:"<>|]', "", name)
sanitize_filename(name) == SelectSeq(name, KeepChar)

NotDash(c) == c # "-"

\* accno_str.replace('-', '')
remove_dashes(s) == SelectSeq(s, NotDash)

\* os.path.join(a, b) on POSIX
os_path_join(a, b) ==
    IF b # <<>> /\ b[1] = "/" THEN b
    ELSE IF a = <<>> \/ a[Len(a)] = "/" THEN a \o b
    ELSE a \o <<"/">> \o b

(***************************************************************************)
(* datetime.strptime(s, "%Y-%m-%d")                                        *)
(***************************************************************************)
RECURSIVE SplitDash(_)
\* the fields of s between dashes
SplitDash(s) ==
    IF \A j \in 1..Len(s) : s[j] # "-" THEN <<s>>
    ELSE LET p == CHOOSE j \in 1..Len(s) :
                      s[j] = "-" /\ \A q \in 1..(j - 1) : s[q] # "-"
         IN <<SubSeq(s, 1, p - 1)>> \o SplitDash(SubSeq(s, p + 1, Len(s)))

IsLeap(y) == (y % 4 = 0 /\ y % 100 # 0) \/ y % 400 = 0

DaysIn(m, y) ==
    IF m = 2 THEN (IF IsLeap(y) THEN 29 ELSE 28)
    ELSE IF m \in {4, 6, 9, 11} THEN 30 ELSE 31

\* TRUE when strptime returns, FALSE when it raises ValueError
strptime_ok(s) ==
    LET f == SplitDash(s) IN
    /\ Len(f) = 3
    /\ AllDigits(f[1]) /\ Len(f[1]) = 4 /\ DigitsValue(f[1]) >= 1
    /\ AllDigits(f[2]) /\ Len(f[2]) \in 1..2 /\ DigitsValue(f[2]) \in 1..12
    /\ AllDigits(f[3]) /\ Len(f[3]) \in 1..2
    /\ DigitsValue(f[3]) \in 1..DaysIn(DigitsValue(f[2]), DigitsValue(f[1]))

\* fdate.year of a text strptime accepts
strptime_year(s) == DigitsValue(SplitDash(s)[1])

(***************************************************************************)
(* Input values.  A cell of a JSON array is a text, null, or absent (the   *)
(* array is shorter than the form array, or its key is missing and         *)
(* recent.get returned []).                                                *)
(***************************************************************************)
Str(v) == [t |-> "str", v |-> v]
Null == [t |-> "null", v |-> <<>>]
Missing == [t |-> "missing", v |-> <<>>]
Unread == [t |-> "unread", v |-> <<>>]

Form10K == <<"1", "0", "-", "K">>
Form10KA == <<"1", "0", "-", "K", "/", "A">>
Form10Q == <<"1", "0", "-", "Q">>
Forms == {Form10K, Form10KA, Form10Q}

Date2019 == <<"2", "0", "1", "9", "-", "0", "3", "-", "0", "1">>
Date2020 == <<"2", "0", "2", "0", "-", "1", "2", "-", "3", "1">>
NotADate == <<"n", "o", "t", "-", "a", "-", "d", "a", "t", "e">>
BadDay == <<"2", "0", "1", "9", "-", "0", "2", "-", "3", "0">>
DateCells == {Str(Date2019), Str(Date2020), Str(NotADate), Str(BadDay), Null, Missing}

Accession == <<"0", "0", "0", "0", "0", "1", "1", "-", "1", "9", "-", "0", "0", "0", "0", "0", "5">>
AccCells == {Str(Accession), Missing}

Years == {2019, 2020}

\* CIK cells of the spreadsheet: 0 is falsy, the other is the spec's scenario
CikCells == {0, 1156375}

\* the 'Company Name' column of the uploaded spreadsheet
CompanyNames == <<
    <<"A", "c", "m", "e", "/", "C", "o", "r", "p", ":", " ", "I", "n", "c", ".">>,
    <<"?", "*">> >>

\* len(df)
NumRows == Len(CompanyNames)

\* tempfile.mkdtemp(prefix="sec_filings_")
output_dir == <<"/", "t", "m", "p", "/", "s", "e", "c", "_", "f", "i", "l", "i", "n", "g", "s", "_", "x">>

\* outcomes of one requests.get and resp.json()
Responses == {
    [kind |-> "exception", status |-> 0,   body |-> "none"],
    [kind |-> "http",      status |-> 404, body |-> "none"],
    [kind |-> "http",      status |-> 200, body |-> "badjson"],
    [kind |-> "http",      status |-> 200, body |-> "nofilings"],
    [kind |-> "http",      status |-> 200, body |-> "index"] }

NoResponse == [kind |-> "none", status |-> 0, body |-> "none"]
NoEntry == [form |-> <<>>, date |-> Unread, accno |-> Unread]
NoPath == <<>>

(***************************************************************************)
(* The Streamlit script: lines 211-228.                                    *)
(***************************************************************************)
ConfigCheck_no_year_check(file, sy, ey) ==
    IF file = "None" THEN "no_file" ELSE "ok"

\* lines 217-221: which branch of the button handler runs
ConfigCheck(file, sy, ey) ==
    IF file = "None" THEN "no_file"
    ELSE IF sy > ey THEN "bad_years"
    ELSE "ok"

Init ==
    /\ pc = "idle"
    /\ excel_file \in {"None", "xlsx"}
    /\ start_year \in Years
    /\ end_year \in Years
    /\ output_dir_made = FALSE
    /\ process_called = FALSE
    /\ zipped = FALSE
    /\ row = 0
    /\ cik_raw = 0
    /\ cik_padded = <<>>
    /\ company_name = <<>>
    /\ attempt = 0
    /\ resp = NoResponse
    /\ sec_data = "unset"
    /\ form_len = 0
    /\ i = 0
    /\ entry = NoEntry
    /\ filings_to_process = <<>>
    /\ driver = "none"
    /\ drivers_created = 0
    /\ k = 0
    /\ render_log = <<>>
    /\ outcome = "none"
    /\ save_path = NoPath
    /\ files = {}
    /\ last_op = "none"
    /\ error = "none"

\* if st.button("Process Filings"): lines 216-224 up to the call
PressProcess ==
    /\ pc = "idle"
    /\ LET c == ConfigCheck(excel_file, start_year, end_year) IN
       IF c = "ok"
       THEN /\ output_dir_made' = TRUE
            /\ process_called' = TRUE
            /\ row' = 1
            /\ pc' = "rows"
            /\ error' = error
       ELSE /\ pc' = "rejected"
            /\ error' = c
            /\ UNCHANGED <<output_dir_made, process_called, row>>
    /\ UNCHANGED <<excel_file, start_year, end_year, zipped, cik_raw, cik_padded,
                   company_name, attempt, resp, sec_data, form_len, i, entry,
                   filings_to_process, driver, drivers_created, k, render_log,
                   outcome, save_path, files, last_op>>

(***************************************************************************)
(* process_filings, first loop: lines 124-166.                             *)
(***************************************************************************)
\* for idx, row in df.iterrows(): lines 124-133, up to the call of fetch_sec_json
NextRow ==
    /\ pc = "rows"
    /\ IF row > NumRows
       THEN /\ pc' = "check"
            /\ UNCHANGED <<row, cik_raw, cik_padded, company_name, attempt, resp>>
       ELSE \E c \in CikCells :
            /\ cik_raw' = c
            /\ company_name' = CompanyNames[row]
            /\ resp' = NoResponse
            /\ IF c = 0
               THEN /\ row' = row + 1
                    /\ pc' = "rows"
                    /\ attempt' = 0
                    /\ UNCHANGED cik_padded
               ELSE /\ cik_padded' = zero_pad_cik(c)
                    /\ attempt' = 1
                    /\ pc' = "fetch"
                    /\ UNCHANGED row
    /\ UNCHANGED <<excel_file, start_year, end_year, output_dir_made, process_called,
                   zipped, sec_data, form_len, i, entry, filings_to_process, driver,
                   drivers_created, k, render_log, outcome, save_path, files,
                   last_op, error>>

max_retries_plus_one == 3 + 1

\* fetch_sec_json(cik_str, max_retries=3, delay=2)
max_retries == 3

\* lines 41-47: the attempt returned resp.json()
AttemptReturns(r) == r.kind = "http" /\ r.status = 200 /\ r.body # "badjson"

\* one pass of the retry loop, lines 39-52, and on return lines 134-142
FetchAttempt ==
    /\ pc = "fetch"
    /\ \E r \in Responses, n \in 0..MaxEntries :
        /\ resp' = r
        /\ IF AttemptReturns(r)
           THEN /\ sec_data' = r.body
                /\ attempt' = attempt
                /\ IF r.body = "index" /\ n > 0
                   THEN /\ form_len' = n
                        /\ i' = 1
                        /\ pc' = "filter"
                        /\ row' = row
                   ELSE /\ form_len' = 0
                        /\ i' = 0
                        /\ pc' = "rows"
                        /\ row' = row + 1
           ELSE IF attempt < max_retries
           THEN /\ attempt' = attempt + 1
                /\ pc' = "fetch"
                /\ UNCHANGED <<sec_data, form_len, i, row>>
           ELSE /\ sec_data' = "None"
                /\ attempt' = attempt
                /\ form_len' = 0
                /\ i' = 0
                /\ pc' = "rows"
                /\ row' = row + 1
    /\ entry' = NoEntry
    /\ UNCHANGED <<excel_file, start_year, end_year, output_dir_made, process_called,
                   zipped, cik_raw, cik_padded, company_name, filings_to_process,
                   driver, drivers_created, k, render_log, outcome, save_path,
                   files, last_op, error>>

TargetForms == {Form10K, Form10KA}

\* line 153, negated: the entry is kept
InYearRange(y, sy, ey) == ~(y < sy \/ y > ey)

\* lines 145-157: what the loop body does with the cells of one entry
ExamineEntry(form, d, a, sy, ey) ==
    IF form \notin TargetForms THEN "skip_form"
    ELSE IF d = Missing THEN "IndexError_date"
    ELSE IF d.t # "str" THEN "TypeError_date"
    ELSE IF ~strptime_ok(d.v) THEN "skip_date"
    ELSE IF ~InYearRange(strptime_year(d.v), sy, ey) THEN "skip_year"
    ELSE IF a = Missing THEN "IndexError_accno"
    ELSE "append"

\* lines 160-166; src_row and src_i record where the task came from
MakeTask(name, d, a, r, idx) ==
    [company_name |-> name,
     year |-> strptime_year(d.v),
     filing_date |-> d.v,
     accession_number |-> a.v,
     src_row |-> r,
     src_i |-> idx]

AppendTask_at_front(list, t) == <<t>> \o list

\* filings_to_process.append(...)
AppendTask(list, t) == Append(list, t)

\* one pass of the filing loop, lines 144-166
FilterEntry ==
    /\ pc = "filter"
    /\ \E form \in Forms, d \in DateCells, a \in AccCells :
        LET res == ExamineEntry(form, d, a, start_year, end_year) IN
        /\ entry' = [form |-> form,
                     date |-> IF res = "skip_form" THEN Unread ELSE d,
                     accno |-> IF res \in {"IndexError_accno", "append"} THEN a ELSE Unread]
        /\ filings_to_process' =
               IF res = "append"
               THEN AppendTask(filings_to_process, MakeTask(company_name, d, a, row, i))
               ELSE filings_to_process
        /\ IF res \in {"IndexError_date", "TypeError_date", "IndexError_accno"}
           THEN /\ error' = res
                /\ pc' = "crashed"
                /\ UNCHANGED <<i, row>>
           ELSE /\ error' = error
                /\ i' = i + 1
                /\ IF i + 1 > form_len
                   THEN pc' = "rows" /\ row' = row + 1
                   ELSE pc' = "filter" /\ row' = row
    /\ UNCHANGED <<excel_file, start_year, end_year, output_dir_made, process_called,
                   zipped, cik_raw, cik_padded, company_name, attempt, resp, sec_data,
                   form_len, driver, drivers_created, k, render_log, outcome,
                   save_path, files, last_op>>

(***************************************************************************)
(* process_filings, second loop: lines 168-192.                            *)
(***************************************************************************)
NoFilings_never(list) == FALSE

\* if not filings_to_process: line 168
NoFilings(list) == list = <<>>

\* lines 168-172: the early return, else create_driver() (lines 62-96)
CheckFilings ==
    /\ pc = "check"
    /\ IF NoFilings(filings_to_process)
       THEN /\ pc' = "returned"
            /\ UNCHANGED <<driver, drivers_created, k, error>>
       ELSE \E how \in {"webdriver_manager", "autoinstaller", "failed"} :
            IF how = "failed"
            THEN /\ pc' = "crashed"
                 /\ error' = "DriverError"
                 /\ UNCHANGED <<driver, drivers_created, k>>
            ELSE /\ driver' = "live"
                 /\ drivers_created' = drivers_created + 1
                 /\ k' = 1
                 /\ pc' = IF 1 > Len(filings_to_process) THEN "quit" ELSE "render"
                 /\ error' = error
    /\ UNCHANGED <<excel_file, start_year, end_year, output_dir_made, process_called,
                   zipped, row, cik_raw, cik_padded, company_name, attempt, resp,
                   sec_data, form_len, i, entry, filings_to_process, render_log,
                   outcome, save_path, files, last_op>>

Prefix10K == <<"1", "0", "K", "_">>
DotPdf == <<".", "p", "d", "f">>

file_name_keeps_dashes(filing) ==
    Prefix10K \o filing.filing_date \o <<"_">> \o filing.accession_number \o DotPdf

\* line 185
file_name(filing) ==
    Prefix10K \o filing.filing_date \o <<"_">>
        \o remove_dashes(filing.accession_number) \o DotPdf

\* lines 181-186
SavePath(filing, out) ==
    os_path_join(
        os_path_join(os_path_join(out, sanitize_filename(filing.company_name)),
                     str_int(filing.year)),
        file_name(filing))

RenderOutcomes == {"saved", "no_data", "exception"}

download_and_convert_filing_reraises(o) ==
    [raises |-> o = "exception", writes |-> o = "saved"]

\* lines 98-115: every Exception is caught; the file is written only when
\* Page.printToPDF returned data
download_and_convert_filing(o) == [raises |-> FALSE, writes |-> o = "saved"]

SleepAfterRender_only_after_success(o) == o = "saved"

\* line 190: time.sleep(2) follows the call whatever it did
SleepAfterRender(o) == TRUE

\* lines 173-189: one filing is rendered
RenderFiling ==
    /\ pc = "render"
    /\ k <= Len(filings_to_process)
    /\ \E o \in RenderOutcomes :
        LET path == SavePath(filings_to_process[k], output_dir)
            res == download_and_convert_filing(o)
            last == k + 1 > Len(filings_to_process)
        IN
        /\ save_path' = path
        /\ outcome' = o
        /\ files' = IF res.writes THEN files \cup {path} ELSE files
        /\ render_log' = Append(render_log, k)
        /\ last_op' = "render"
        /\ IF res.raises
           THEN pc' = "crashed" /\ error' = "RenderError" /\ k' = k
           ELSE IF SleepAfterRender(o)
           THEN pc' = "sleep" /\ error' = error /\ k' = k
           ELSE /\ pc' = IF last THEN "quit" ELSE "render"
                /\ error' = error
                /\ k' = k + 1
    /\ UNCHANGED <<excel_file, start_year, end_year, output_dir_made, process_called,
                   zipped, row, cik_raw, cik_padded, company_name, attempt, resp,
                   sec_data, form_len, i, entry, filings_to_process, driver,
                   drivers_created>>

\* line 190 and the loop's step to the next filing
Delay ==
    /\ pc = "sleep"
    /\ last_op' = "delay"
    /\ k' = k + 1
    /\ pc' = IF k + 1 > Len(filings_to_process) THEN "quit" ELSE "render"
    /\ UNCHANGED <<excel_file, start_year, end_year, output_dir_made, process_called,
                   zipped, row, cik_raw, cik_padded, company_name, attempt, resp,
                   sec_data, form_len, i, entry, filings_to_process, driver,
                   drivers_created, render_log, outcome, save_path, files, error>>

\* driver.quit(): line 192
QuitDriver ==
    /\ pc = "quit"
    /\ driver' = "quit"
    /\ pc' = "returned"
    /\ UNCHANGED <<excel_file, start_year, end_year, output_dir_made, process_called,
                   zipped, row, cik_raw, cik_padded, company_name, attempt, resp,
                   sec_data, form_len, i, entry, filings_to_process, drivers_created,
                   k, render_log, outcome, save_path, files, last_op, error>>

\* zip_directory(output_dir, zip_path): lines 226-228
ZipDirectory ==
    /\ pc = "returned"
    /\ zipped' = TRUE
    /\ pc' = "done"
    /\ UNCHANGED <<excel_file, start_year, end_year, output_dir_made, process_called,
                   row, cik_raw, cik_padded, company_name, attempt, resp, sec_data,
                   form_len, i, entry, filings_to_process, driver, drivers_created,
                   k, render_log, outcome, save_path, files, last_op, error>>

Next ==
    \/ PressProcess
    \/ NextRow
    \/ FetchAttempt
    \/ FilterEntry
    \/ CheckFilings
    \/ RenderFiling
    \/ Delay
    \/ QuitDriver
    \/ ZipDirectory

Spec == Init /\ [][Next]_vars

(***************************************************************************)
(* zero_pad_cik alone: the identifier is drawn from PadInputs and padded.  *)
(***************************************************************************)
PadInputs == (0..MaxSmallCik) \cup {1156375, 999999999, 100000000, 1234567890, 0 - 5}

InitPad ==
    /\ pc = "pad"
    /\ cik_raw \in PadInputs
    /\ excel_file = "xlsx"
    /\ start_year = 2019
    /\ end_year = 2019
    /\ output_dir_made = FALSE
    /\ process_called = FALSE
    /\ zipped = FALSE
    /\ row = 0
    /\ cik_padded = <<>>
    /\ company_name = <<>>
    /\ attempt = 0
    /\ resp = NoResponse
    /\ sec_data = "unset"
    /\ form_len = 0
    /\ i = 0
    /\ entry = NoEntry
    /\ filings_to_process = <<>>
    /\ driver = "none"
    /\ drivers_created = 0
    /\ k = 0
    /\ render_log = <<>>
    /\ outcome = "none"
    /\ save_path = NoPath
    /\ files = {}
    /\ last_op = "none"
    /\ error = "none"

\* cik_padded = zero_pad_cik(cik_raw): line 131
PadStep ==
    /\ pc = "pad"
    /\ cik_padded' = zero_pad_cik(cik_raw)
    /\ pc' = "padded"
    /\ UNCHANGED <<excel_file, start_year, end_year, output_dir_made, process_called,
                   zipped, row, cik_raw, company_name, attempt, resp, sec_data,
                   form_len, i, entry, filings_to_process, driver, drivers_created,
                   k, render_log, outcome, save_path, files, last_op, error>>

NextPad == PadStep

SpecPad == InitPad /\ [][NextPad]_vars

(***************************************************************************)
(* Properties.                                                             *)
(***************************************************************************)
FirstN(n) == [j \in 1..n |-> j]

\* the cells of an entry pass the filter of the specification
EntryMatches(e) ==
    /\ e.form \in {Form10K, Form10KA}
    /\ e.date.t = "str"
    /\ strptime_ok(e.date.v)
    /\ start_year <= strptime_year(e.date.v)
    /\ strptime_year(e.date.v) <= end_year

\* the date cell of the entry is malformed or missing
DateMalformed(e) ==
    \/ e.date.t \in {"null", "missing"}
    \/ e.date.t = "str" /\ ~strptime_ok(e.date.v)

\* C1: every pass of the filing loop appends a task for the entry it read
\* if and only if the entry's form is 10-K or 10-K/A and the year of its
\* filing date lies in [start_year, end_year]; otherwise the list is unchanged.
C1_TaskIffMatch ==
    [][pc = "filter" =>
        IF EntryMatches(entry')
        THEN /\ Len(filings_to_process') = Len(filings_to_process) + 1
             /\ \E j \in 1..Len(filings_to_process') :
                    /\ filings_to_process'[j].src_row = row
                    /\ filings_to_process'[j].src_i = i
        ELSE filings_to_process' = filings_to_process]_vars

\* C2 as claimed: at most 3 requests per identifier, and the retry loop is
\* left at the first attempt that returns status 200.
C2_StopsAtFirst200 ==
    /\ attempt <= 3
    /\ (pc = "fetch" /\ resp # NoResponse) => resp.status # 200

\* C2: fetch_sec_json makes at most 3 requests per identifier; it returns the
\* parsed body at the first attempt that has status 200 and a body that
\* parses; any other attempt (exception, other status, status 200 with a body
\* that does not parse) is retried until the third, after which it returns
\* None without raising; on None no task is added and the row loop goes on.
C2_FetchRetries ==
    [][pc = "fetch" =>
        /\ attempt <= 3
        /\ attempt' <= 3
        /\ IF resp'.status = 200 /\ resp'.body # "badjson"
           THEN /\ sec_data' = resp'.body
                /\ pc' \in {"rows", "filter"}
                /\ attempt' = attempt
           ELSE IF attempt < 3
           THEN /\ pc' = "fetch"
                /\ attempt' = attempt + 1
                /\ sec_data' = sec_data
           ELSE /\ sec_data' = "None"
                /\ pc' = "rows"
                /\ row' = row + 1
                /\ error' = "none"
                /\ filings_to_process' = filings_to_process]_vars

\* the third attempt failed (here by a body that does not parse), None was
\* returned and the row loop continues
C2_Witness ==
    /\ pc = "rows"
    /\ sec_data = "None"
    /\ attempt = 3
    /\ resp.status = 200
    /\ resp.body = "badjson"
    /\ row <= NumRows
    /\ error = "none"

\* C3: an entry whose date cell is malformed or missing is skipped: no
\* exception leaves process_filings and no task is made for it.
C3_MalformedDateSkipped ==
    DateMalformed(entry) => (error = "none" /\ pc # "crashed")

\* C4: a render failure does not abort the batch: once the driver exists no
\* exception leaves the render loop, the tasks are attempted once each in
\* list order whatever the earlier outcomes were, every task has been
\* attempted when the loop is over, and a failed attempt writes no file.
C4_Inv ==
    drivers_created = 1 =>
        /\ error = "none"
        /\ pc # "crashed"
        /\ render_log = FirstN(Len(render_log))
        /\ Len(render_log) <= Len(filings_to_process)
        /\ pc = "render" => Len(render_log) = k - 1
        /\ pc = "sleep" => Len(render_log) = k
        /\ pc \in {"quit", "returned", "done"} =>
               Len(render_log) = Len(filings_to_process)

C4_Step ==
    pc = "render" =>
        /\ render_log' = Append(render_log, k)
        /\ outcome' \in {"no_data", "exception"} => files' = files
        /\ outcome' = "saved" => files' = files \cup {save_path'}

C4_RenderFailureContinues == []C4_Inv /\ [][C4_Step]_vars

\* the previous attempt raised and the loop is at the next task
C4_Witness ==
    /\ pc = "render"
    /\ k > 1
    /\ outcome = "exception"
    /\ Len(render_log) = k - 1

\* C5: tasks are in source order: rows in spreadsheet order, entries of one
\* row in index order; the render loop attempts them in list order.
C5_OrderPreserved ==
    /\ \A a, b \in 1..Len(filings_to_process) :
           a < b =>
               \/ filings_to_process[a].src_row < filings_to_process[b].src_row
               \/ /\ filings_to_process[a].src_row = filings_to_process[b].src_row
                  /\ filings_to_process[a].src_i < filings_to_process[b].src_i
    /\ \A j \in 1..Len(render_log) : render_log[j] = j

\* two tasks of one row and a task of a later row, all rendered
C5_Witness ==
    /\ Len(filings_to_process) >= 3
    /\ filings_to_process[1].src_row = filings_to_process[2].src_row
    /\ filings_to_process[2].src_row < filings_to_process[3].src_row
    /\ Len(render_log) = Len(filings_to_process)

Slash == <<"/">>
Underscore == <<"_">>

\* the folder name: the display name without \ / * ? : " < > |
Folder(name) ==
    SelectSeq(name, LAMBDA c : c \notin {"\\", "/", "*", "?", ":", "\"", "<", ">", "|"})

\* the accession number without dashes
NoDashes(s) == SelectSeq(s, LAMBDA c : c # "-")

\* <output_root>/<folder>/<year>/<doc>_<filing_date>_<accession>.pdf
PathOf(folder, t, doc) ==
    output_dir \o Slash \o folder \o Slash \o SubSeq(t.filing_date, 1, 4) \o Slash
        \o doc \o Underscore \o t.filing_date \o Underscore
        \o NoDashes(t.accession_number) \o <<".", "p", "d", "f">>

\* C6 as claimed: the path of the task made from an entry carries the form
\* type of that entry as its document type.
C6_PathUsesFormType ==
    (entry.accno.t = "str" /\ filings_to_process # <<>>) =>
        LET t == filings_to_process[Len(filings_to_process)] IN
        SavePath(t, output_dir) = PathOf(Folder(t.company_name), t, entry.form)

\* the path the code builds: the document type is the fixed text 10K, and an
\* empty folder name adds no path component
ExpectedPath(t) ==
    IF Folder(t.company_name) = <<>>
    THEN output_dir \o Slash \o SubSeq(t.filing_date, 1, 4) \o Slash
             \o <<"1", "0", "K">> \o Underscore \o t.filing_date \o Underscore
             \o NoDashes(t.accession_number) \o <<".", "p", "d", "f">>
    ELSE PathOf(Folder(t.company_name), t, <<"1", "0", "K">>)

\* C6: the destination path of every task is
\* <output_root>/<sanitized_company_name>/<year>/10K_<filing_date>_<accession
\* number without dashes>.pdf with the fixed document type 10K for 10-K and
\* 10-K/A alike (without the company component when the sanitized name is
\* empty); every render uses that path and every file written has it.
C6_DestinationPath ==
    /\ \A j \in 1..Len(filings_to_process) :
           SavePath(filings_to_process[j], output_dir) = ExpectedPath(filings_to_process[j])
    /\ render_log # <<>> =>
           save_path = ExpectedPath(filings_to_process[render_log[Len(render_log)]])
    /\ \A f \in files :
           \E j \in 1..Len(filings_to_process) : f = ExpectedPath(filings_to_process[j])

\* a file was written for a task of the company whose name has unsafe characters
C6_Witness ==
    /\ outcome = "saved"
    /\ last_op = "render"
    /\ save_path \in files
    /\ filings_to_process[k].company_name # Folder(filings_to_process[k].company_name)
    /\ Folder(filings_to_process[k].company_name) # <<>>

\* C7: with no uploaded file or with start_year > end_year the button press
\* reports an error and nothing else happens: process_filings is not called,
\* no output directory is made, no request is issued, no archive is built.
C7_InvalidConfigRejected ==
    (excel_file = "None" \/ start_year > end_year) =>
        /\ pc \in {"idle", "rejected"}
        /\ pc = "rejected" => error \in {"no_file", "bad_years"}
        /\ ~process_called
        /\ ~output_dir_made
        /\ attempt = 0
        /\ resp = NoResponse
        /\ sec_data = "unset"
        /\ ~zipped
        /\ driver = "none"

\* the button was pressed with a file and start_year > end_year
C7_Witness ==
    /\ pc = "rejected"
    /\ excel_file = "xlsx"
    /\ start_year > end_year
    /\ error = "bad_years"

\* C8: renders are sequential with the delay between them: after a render
\* attempt the next step of the loop is the delay, whatever the outcome, and
\* every render attempt but the first directly follows a delay.
C8_DelayBetweenRenders ==
    /\ last_op = "render" => pc = "sleep"
    /\ (pc = "render" /\ k > 1) => last_op = "delay"
    /\ (pc = "render" /\ k = 1) => last_op = "none"
    /\ pc \in {"quit", "returned", "done"} => last_op \in {"none", "delay"}

\* a failed attempt was followed by the delay and the next render is due
C8_Witness ==
    /\ pc = "render"
    /\ k > 1
    /\ outcome \in {"no_data", "exception"}
    /\ last_op = "delay"

\* C9: a non-negative identifier of fewer than 10 digits is padded to exactly
\* 10 characters, all digits, whose value is the identifier (so they are
\* leading zeros followed by its digits); 1156375 gives "0001156375".
C9_ZeroPad ==
    (pc = "padded" /\ cik_raw >= 0 /\ cik_raw <= 999999999) =>
        /\ Len(cik_padded) = 10
        /\ \A j \in 1..10 : cik_padded[j] \in {"0", "1", "2", "3", "4", "5", "6", "7", "8", "9"}
        /\ int_of(cik_padded) = cik_raw
        /\ \A j \in 1..(10 - Len(str_int(cik_raw))) : cik_padded[j] = "0"
        /\ cik_raw = 1156375 =>
               cik_padded = <<"0", "0", "0", "1", "1", "5", "6", "3", "7", "5">>

\* the scenario identifier was padded
C9_Witness ==
    /\ pc = "padded"
    /\ cik_raw = 1156375
    /\ cik_padded # <<>>

\* C10: the driver is created at most once, after the row loop is over and
\* only for a non-empty task list; nothing is rendered while rows are still
\* fetched and filtered; a created driver is quit once every task was
\* attempted.
C10_TwoPhases ==
    /\ drivers_created <= 1
    /\ drivers_created = 1 => (row > NumRows /\ filings_to_process # <<>>)
    /\ driver # "none" => drivers_created = 1
    /\ render_log # <<>> => drivers_created = 1
    /\ pc \in {"idle", "rows", "fetch", "filter", "check"} =>
           (render_log = <<>> /\ driver = "none" /\ drivers_created = 0)
    /\ (pc \in {"returned", "done"} /\ filings_to_process = <<>>) =>
           (drivers_created = 0 /\ render_log = <<>>)
    /\ (pc \in {"returned", "done"} /\ drivers_created = 1) => driver = "quit"
    /\ driver = "quit" => Len(render_log) = Len(filings_to_process)

\* a run with tasks ended: the driver was created once and is quit
C10_Witness ==
    /\ pc = "done"
    /\ drivers_created = 1
    /\ driver = "quit"
    /\ Len(render_log) >= 2

====
